---- MODULE Spec2Model ----
(***************************************************************************)
(* A model of the self-refreshing cache of SamHoque/httpclient             *)
(* (CachedClient: SetupCachedEndpoint, updateCache, GetCached,             *)
(* GetCachedOrFetch, StopCacheUpdates, Stop and the scheduled tasks).      *)
(*                                                                         *)
(* Foreground callers are the threads 1..NProcs; the scheduled task of     *)
(* registration r (its ticker goroutine, or its cron job) is the thread    *)
(* NProcs + r.  Every step of a thread is one access to shared memory (or  *)
(* one critical section of cacheMux' read lock); the write lock of         *)
(* updateCache is taken and released in separate steps.                    *)
(***************************************************************************)
EXTENDS Integers, FiniteSets, Sequences, TLC

\* ---------------------------------------------------------------- bounds
NProcs == 2
\* Calls of SetupCachedEndpoint, network requests and foreground operations in
\* a behaviour of Spec ...
OneReg == 1
MaxFetch == 2
MaxOps == 3
\* ... and of SpecLife, where one caller at a time registers keys, again too,
\* and stops them.
LifeProcs == 1
MaxRegs == 2
LifeFetch == 2
LifeOps == 4
\* ... and of SpecRace, where a key is registered again while callers use it.
RaceProcs == 2
RaceFetch == 1
RaceOps == 3
\* ... and of SpecFair, where the scheduled task of one registration runs on
\* until a caller stops it.
FairProcs == 1
FairFetch == 3
FairOps == 2
\* Instants more than MaxAge before now are kept as now - MaxAge: older than every window.
MaxAge == 2

\* ------------------------------------------------------ program constants
\* time.Minute in seconds: the threshold of line 91.
Minute == 60
\* time.Time{} (line 56), as an instant far before every instant of the clock.
ZeroTime == -1000

Keys == {"/a", "/b"}
\* config.Expiration, in clock units.
Expirations == {1}
\* config.CronSpec: "@every <d>" with d in seconds (-1: time.ParseDuration
\* fails; 0: a duration that parses and is not positive, as "@every 0s"), or
\* another expression, which cron.AddFunc accepts or rejects.
CronSpecs ==
    { [every |-> TRUE,  dur |-> 30, ok |-> TRUE],
      [every |-> TRUE,  dur |-> 0,  ok |-> TRUE],
      [every |-> TRUE,  dur |-> 90, ok |-> TRUE],
      [every |-> TRUE,  dur |-> -1, ok |-> FALSE],
      [every |-> FALSE, dur |-> 0,  ok |-> TRUE],
      [every |-> FALSE, dur |-> 0,  ok |-> FALSE] }

Procs == 1..NProcs
Regs == 1..MaxRegs
\* The destinations callers pass as `result`, pointers to caller-owned values:
\* call r of SetupCachedEndpoint passes destination r (a variable of its own, as
\* in every call of the tests and the readme).
Dests == Regs
\* The first key registered is "/a" (the keys are interchangeable).
FirstKey == "/a"
Bg(r) == NProcs + r
Threads == 1..(NProcs + MaxRegs)

VARIABLES
    cache,          \* c.cache: key -> entry (0: no entry); entry r is the one registration r made
    entries,        \* the CacheEntry objects: Data, UpdatedAt, Expiration (by: the fetch that wrote UpdatedAt)
    content,        \* what each destination holds: n > 0 the payload of fetch n, -n a partial decode of it, 0 the caller's value
    cacheMux,       \* the thread holding c.cacheMux for writing, or 0
    stopChans,      \* c.stopChans: key -> channel (0: none); channel r is the one registration r made
    closes,         \* how many times close() was called on each channel
    ticker,         \* c.ticker: key -> ticker (0: none)
    tickerStopped,  \* ticker r was stopped
    cronJobs,       \* the registrations whose updateFunc c.cron holds
    cronRunning,    \* c.cron is started
    reg,            \* what registration r's closures captured: config.Path, result, and how it is scheduled
                    \* (none: not yet, or the call failed); over: the registrations of the key made before the call;
                    \* skip: config.SkipInitialFetch
    nreg,           \* SetupCachedEndpoint calls so far
    th,             \* every thread's position and locals
    fetches,        \* network requests issued, per key
    panicked,       \* the process panicked
    nops,           \* foreground operations started
    lim,            \* the bounds of the behaviour: concurrent callers, registrations, network requests, foreground operations
    ret,            \* the call that returned in the last step, with what it returned (NoRet: none did)
    handed,         \* the destinations GetCached or GetCachedOrFetch have handed to a caller without an error
    stoppedKey,     \* the registrations a StopCacheUpdates of their key has covered: it began after their SetupCachedEndpoint returned, and has returned
    stoppedAll      \* the same for Stop()

vars == << cache, entries, content, cacheMux, stopChans, closes, ticker,
           tickerStopped, cronJobs, cronRunning, reg, nreg, th, fetches, panicked,
           nops, lim, ret, handed, stoppedKey, stoppedAll >>

\* A thread that is not inside an operation.
IdleThread ==
    [ pc |-> "idle", op |-> "none", path |-> "", ent |-> 0, result |-> 0,
      body |-> 0, bk |-> "", seenBy |-> 0, expired |-> FALSE, rid |-> 0,
      ch |-> 0, start |-> {}, visited |-> {}, regs |-> {}, fetched |-> 0 ]

\* No CronSpec read.
NoSpec == [every |-> FALSE, dur |-> -1, ok |-> FALSE]

\* No call returned in the last step.
NoRet ==
    [ op |-> "none", path |-> "", val |-> 0, err |-> "", snap |-> 0,
      seenBy |-> 0, fetched |-> 0, rid |-> 0, after |-> {}, spec |-> NoSpec ]

NoEntry == [Data |-> 0, UpdatedAt |-> ZeroTime, Expiration |-> 0, by |-> 0]
NoReg == [path |-> "", result |-> 0, kind |-> "none", over |-> {}, skip |-> FALSE]

\* NewCachedClient (lines 39-47): empty maps, a cron that is not started.
New ==
    /\ cache = [k \in Keys |-> 0]
    /\ entries = [r \in Regs |-> NoEntry]
    /\ content = [d \in Dests |-> 0]
    /\ cacheMux = 0
    /\ stopChans = [k \in Keys |-> 0]
    /\ closes = [r \in Regs |-> 0]
    /\ ticker = [k \in Keys |-> 0]
    /\ tickerStopped = [r \in Regs |-> FALSE]
    /\ cronJobs = {}
    /\ cronRunning = FALSE
    /\ reg = [r \in Regs |-> NoReg]
    /\ nreg = 0
    /\ th = [t \in Threads |-> IdleThread]
    /\ fetches = [k \in Keys |-> 0]
    /\ panicked = FALSE
    /\ nops = 0
    /\ ret = NoRet
    /\ handed = {}
    /\ stoppedKey = {}
    /\ stoppedAll = {}

Init ==
    /\ New
    /\ lim = [procs |-> NProcs, regs |-> OneReg, fetch |-> MaxFetch, ops |-> MaxOps]

InitLife ==
    /\ New
    /\ lim = [procs |-> LifeProcs, regs |-> MaxRegs, fetch |-> LifeFetch, ops |-> LifeOps]

InitRace ==
    /\ New
    /\ lim = [procs |-> RaceProcs, regs |-> MaxRegs, fetch |-> RaceFetch, ops |-> RaceOps]

InitFair ==
    /\ New
    /\ lim = [procs |-> FairProcs, regs |-> OneReg, fetch |-> FairFetch, ops |-> FairOps]

\* ------------------------------------------------------------- helpers

RECURSIVE SumOver(_, _)
SumOver(f, S) ==
    IF S = {} THEN 0
    ELSE LET x == CHOOSE y \in S : TRUE IN f[x] + SumOver(f, S \ {x})

\* Network requests issued so far; the backend answers request n with payload n.
TotalFetches == SumOver(fetches, Keys)

\* Instants are kept relative to the present: now is 0, an instant in the past
\* is negative, and the passing of time moves every stored instant back.
now == 0

\* An expiry check that already fails at the end of the window.
ExpiredEager(e) == now - e.UpdatedAt >= e.Expiration

\* time.Since(e.UpdatedAt) > e.Expiration (lines 181 and 207).
Expired(e) == now - e.UpdatedAt > e.Expiration

\* A needsFetch that always asks for a refresh.
NeedsFetchAlways(e) == TRUE

\* A needsFetch with its condition inverted.
NeedsFetchInverted(e) == ~(e.UpdatedAt = ZeroTime \/ Expired(e))

\* entry.UpdatedAt.IsZero() || time.Since(entry.UpdatedAt) > entry.Expiration (line 181).
NeedsFetch(e) == e.UpdatedAt = ZeroTime \/ Expired(e)

\* A scheduling branch that does not look at the error of time.ParseDuration.
ResolveUnchecked(spec) ==
    IF spec.every /\ spec.dur = 0 THEN "panic"
    ELSE IF spec.every /\ spec.dur < Minute THEN "ticker"
    ELSE IF spec.ok THEN "cron"
    ELSE "error"

\* The scheduling branch of SetupCachedEndpoint (lines 84-113): the error of
\* time.ParseDuration; below a minute time.NewTicker, which panics when the
\* duration is not positive; cron.AddFunc otherwise, and its error.
Resolve(spec) ==
    IF spec.every /\ spec.dur = -1 THEN "error"
    ELSE IF spec.every /\ spec.dur < Minute
         THEN (IF spec.dur <= 0 THEN "panic" ELSE "ticker")
    ELSE IF spec.ok THEN "cron"
    ELSE "error"

\* A foreground caller may start an operation (the callers are interchangeable:
\* a call is run by the first caller that is free).
CanStart(p) ==
    /\ ~panicked
    /\ th[p].pc = "idle"
    /\ \A q \in Procs : q < p => th[q].pc # "idle"
    /\ Cardinality({ q \in Procs : th[q].pc # "idle" }) < lim.procs
    /\ nops < lim.ops

Running(t) == ~panicked /\ th[t].pc # "idle"

\* What a call op(path) hands its caller when it returns (val, err); snap is
\* what the returned value holds at that moment, after the registrations of
\* the key that had returned nil when the call began, spec the CronSpec a
\* SetupCachedEndpoint resolved.
RetRec(op, path, val, err, seenBy, fetched) ==
    [ op |-> op, path |-> path, val |-> val, err |-> err,
      snap |-> IF val = 0 THEN 0 ELSE content[val],
      seenBy |-> seenBy, fetched |-> fetched, rid |-> 0, after |-> {},
      spec |-> NoSpec ]

Returns(t, val, err) ==
    [RetRec(th[t].op, th[t].path, val, err, th[t].seenBy, th[t].fetched)
        EXCEPT !.rid = th[t].rid, !.after = th[t].regs]

\* The registrations of key k: its calls of SetupCachedEndpoint that have
\* returned nil.
Registered(k) == { r \in 1..nreg : reg[r].path = k /\ reg[r].kind # "none" }

\* ---------------------------------------------------- SetupCachedEndpoint

\* Lines 50-58: the entry is replaced by a new, never-updated one.  (The fields
\* of config are drawn at the step that first reads them: Path and Expiration
\* here, SkipInitialFetch at line 77, CronSpec at line 84.)
SetupStart(p) ==
    /\ CanStart(p)
    /\ nreg < lim.regs
    /\ cacheMux = 0
    /\ \E k \in IF nreg = 0 THEN {FirstKey} ELSE Keys, w \in Expirations :
         LET r == nreg + 1
             d == r
         IN
         /\ entries' = [entries EXCEPT ![r] =
                [Data |-> d, UpdatedAt |-> ZeroTime, Expiration |-> w, by |-> 0]]
         /\ cache' = [cache EXCEPT ![k] = r]
         /\ reg' = [reg EXCEPT ![r] = [NoReg EXCEPT !.path = k, !.result = d]]
         /\ nreg' = r
         /\ th' = [th EXCEPT ![p] =
                [IdleThread EXCEPT !.pc = "su_chan", !.op = "Setup", !.path = k,
                                   !.result = d, !.rid = r, !.regs = Registered(k)]]
    /\ nops' = nops + 1
    /\ ret' = NoRet
    /\ UNCHANGED << lim, content, cacheMux, stopChans, closes, ticker, tickerStopped,
                    cronJobs, cronRunning, fetches, panicked, handed,
                    stoppedKey, stoppedAll >>

\* A registration that never makes the initial fetch.
SetupChanSkipping(p) ==
    /\ Running(p)
    /\ th[p].pc = "su_chan"
    /\ stopChans' = [stopChans EXCEPT ![th[p].path] = th[p].rid]
    /\ \E skip \in BOOLEAN :
         /\ th' = [th EXCEPT ![p].pc = "su_sched"]
         /\ reg' = [reg EXCEPT ![th[p].rid].skip = skip]
    /\ ret' = NoRet
    /\ UNCHANGED << lim, cache, entries, content, cacheMux, closes, ticker, tickerStopped,
                    cronJobs, cronRunning, nreg, fetches, panicked, nops,
                    handed, stoppedKey, stoppedAll >>

\* Lines 60-61 and 77: the stop channel is made and stored in c.stopChans; the
\* initial fetch follows unless it is skipped.
SetupChan(p) ==
    /\ Running(p)
    /\ th[p].pc = "su_chan"
    /\ stopChans' = [stopChans EXCEPT ![th[p].path] = th[p].rid]
    /\ \E skip \in BOOLEAN :
         /\ th' = [th EXCEPT ![p].pc = IF skip THEN "su_sched" ELSE "uc_get"]
         /\ reg' = [reg EXCEPT ![th[p].rid].skip = skip]
    /\ ret' = NoRet
    /\ UNCHANGED << lim, cache, entries, content, cacheMux, closes, ticker, tickerStopped,
                    cronJobs, cronRunning, nreg, fetches, panicked, nops,
                    handed, stoppedKey, stoppedAll >>

\* Lines 84-116: the schedule is resolved and the task started; the call
\* returns, unless time.NewTicker panics (line 92).
SetupSchedule(p) ==
    /\ Running(p)
    /\ th[p].pc = "su_sched"
    /\ \E spec \in CronSpecs :
       LET r == th[p].rid
           k == th[p].path
           how == Resolve(spec)
       IN
       /\ ticker' = IF how = "ticker" THEN [ticker EXCEPT ![k] = r] ELSE ticker
       /\ cronJobs' = IF how = "cron" THEN cronJobs \cup {r} ELSE cronJobs
       /\ cronRunning' = IF how = "cron" THEN TRUE ELSE cronRunning
       /\ reg' = [reg EXCEPT ![r].kind = IF how \in {"error", "panic"} THEN "none" ELSE how,
                              ![r].over = IF how \in {"error", "panic"} THEN {} ELSE th[p].regs]
       /\ th' = [th EXCEPT
                   ![p] = IF how = "panic" THEN [@ EXCEPT !.pc = "su_ticker"] ELSE IdleThread,
                   ![Bg(r)] = IF how \in {"error", "panic"} THEN @
                              ELSE [IdleThread EXCEPT
                                      !.pc = IF how = "ticker" THEN "bg_wait" ELSE "bg_idle",
                                      !.op = "bg", !.path = k, !.result = reg[r].result,
                                      !.rid = r]]
       /\ ret' = IF how = "panic" THEN NoRet
                 ELSE [Returns(p, 0, IF how = "error" THEN "schedule" ELSE "")
                         EXCEPT !.spec = spec]
       /\ panicked' = (how = "panic")
    /\ UNCHANGED << lim, cache, entries, content, cacheMux, stopChans, closes, tickerStopped,
                    nreg, fetches, nops, handed, stoppedKey, stoppedAll >>

\* ------------------------------------------------------------ updateCache

\* An updateCache that goes on to the locked write when the context is done.
AfterUpdateThrough(t, err) ==
    IF err = "ctx" THEN [th[t] EXCEPT !.pc = "uc_lock"]
    ELSE IF th[t].op = "Setup"
         THEN (IF err = "" THEN [th[t] EXCEPT !.pc = "su_sched"] ELSE IdleThread)
    ELSE IF th[t].op = "GetCachedOrFetch"
         THEN (IF err = "" THEN [th[t] EXCEPT !.pc = "gf_reget"] ELSE IdleThread)
    ELSE [th[t] EXCEPT !.pc = IF reg[th[t].rid].kind = "ticker" THEN "bg_wait" ELSE "bg_idle",
                       !.body = 0, !.bk = ""]

\* Where updateCache's caller goes on with its result (lines 70-72, 78-80,
\* 184-191): the caller of a failed foreground refresh returns the error, the
\* scheduled task waits for its next run.
AfterUpdate(t, err) ==
    CASE th[t].op = "Setup" ->
           IF err = "" THEN [th[t] EXCEPT !.pc = "su_sched"] ELSE IdleThread
      [] th[t].op = "GetCachedOrFetch" ->
           IF err = "" THEN [th[t] EXCEPT !.pc = "gf_reget"] ELSE IdleThread
      [] OTHER ->
           [th[t] EXCEPT !.pc = IF reg[th[t].rid].kind = "ticker" THEN "bg_wait" ELSE "bg_idle",
                         !.body = 0, !.bk = ""]

\* What a failed foreground refresh returns to the caller: no value, the error.
AfterUpdateRet(t, err) ==
    IF t \in Procs /\ err # ""
    THEN [RetRec(th[t].op, th[t].path, 0, err, th[t].seenBy,
                 IF th[t].pc = "uc_get" THEN th[t].fetched + 1 ELSE th[t].fetched)
             EXCEPT !.rid = th[t].rid, !.after = th[t].regs]
    ELSE NoRet

\* What the network can answer to c.Get and io.ReadAll (lines 140-153): a
\* transport error, the context done before the response arrives (cancelled,
\* or its deadline passed), a status other than 200, a body that cannot be
\* read; or a body: the payload, text that is not JSON (or nothing), JSON with
\* a value of the wrong type.
Answers == {"fetch", "ctx", "status", "read", "good", "syntax", "type"}

\* Lines 140-153: one network request.
UpdateGet(t) ==
    /\ Running(t)
    /\ th[t].pc = "uc_get"
    /\ TotalFetches < lim.fetch
    /\ fetches' = [fetches EXCEPT ![th[t].path] = @ + 1]
    /\ \E out \in Answers :
         IF out \in {"fetch", "ctx", "status", "read"}
         THEN /\ th' = [th EXCEPT ![t] = AfterUpdate(t, out)]
              /\ ret' = AfterUpdateRet(t, out)
         ELSE /\ th' = [th EXCEPT ![t].pc = "uc_decode", ![t].body = TotalFetches + 1,
                                  ![t].bk = out,
                                  ![t].fetched = IF t \in Procs THEN @ + 1 ELSE 0]
              /\ ret' = NoRet
    /\ UNCHANGED << lim, cache, entries, content, cacheMux, stopChans, closes, ticker,
                    tickerStopped, cronJobs, cronRunning, reg, nreg, panicked, nops,
                    handed, stoppedKey, stoppedAll >>

\* A decoder that stores nothing.
UnmarshalNothing(old, body, bk) == old

\* What json.Unmarshal(body, result) leaves in the destination (line 155): the
\* payload; nothing of a body that is not JSON (the syntax is checked before
\* anything is stored); the fields decoded before a value of the wrong type.
Unmarshal(old, body, bk) ==
    CASE bk = "good" -> body
      [] bk = "type" -> 0 - body
      [] OTHER -> old

\* Lines 155-157: the body is decoded into the destination, outside the lock.
UpdateDecode(t) ==
    /\ Running(t)
    /\ th[t].pc = "uc_decode"
    /\ content' = [content EXCEPT ![th[t].result] = Unmarshal(@, th[t].body, th[t].bk)]
    /\ IF th[t].bk = "good"
       THEN /\ th' = [th EXCEPT ![t].pc = "uc_lock"]
            /\ ret' = NoRet
       ELSE /\ th' = [th EXCEPT ![t] = AfterUpdate(t, "decode")]
            /\ ret' = AfterUpdateRet(t, "decode")
    /\ UNCHANGED << lim, cache, entries, cacheMux, stopChans, closes, ticker, tickerStopped,
                    cronJobs, cronRunning, reg, nreg, fetches, panicked, nops,
                    handed, stoppedKey, stoppedAll >>

\* Line 159: c.cacheMux.Lock().
UpdateLock(t) ==
    /\ Running(t)
    /\ th[t].pc = "uc_lock"
    /\ cacheMux = 0
    /\ cacheMux' = t
    /\ th' = [th EXCEPT ![t].pc = "uc_write"]
    /\ ret' = NoRet
    /\ UNCHANGED << lim, cache, entries, content, stopChans, closes, ticker, tickerStopped,
                    cronJobs, cronRunning, reg, nreg, fetches, panicked, nops,
                    handed, stoppedKey, stoppedAll >>

\* A write that stores the value and forgets the time.
WriteEntryNoStamp(e, result, at, by) == [e EXCEPT !.Data = result]

\* Lines 161-162: what the locked section writes into the key's current entry.
WriteEntry(e, result, at, by) ==
    [e EXCEPT !.Data = result, !.UpdatedAt = at, !.by = by]

\* An updateCache that returns without releasing the lock.
UpdateWriteHolding(t) ==
    /\ Running(t)
    /\ th[t].pc = "uc_write"
    /\ LET e == cache[th[t].path] IN
       entries' = IF e = 0 THEN entries
                  ELSE [entries EXCEPT ![e] = WriteEntry(@, th[t].result, now, th[t].body)]
    /\ th' = [th EXCEPT ![t] = AfterUpdate(t, "")]
    /\ ret' = NoRet
    /\ UNCHANGED << lim, cache, content, cacheMux, stopChans, closes, ticker, tickerStopped,
                    cronJobs, cronRunning, reg, nreg, fetches, panicked, nops,
                    handed, stoppedKey, stoppedAll >>

\* Lines 160-166: the entry is written and the lock released.
UpdateWrite(t) ==
    /\ Running(t)
    /\ th[t].pc = "uc_write"
    /\ LET e == cache[th[t].path] IN
       entries' = IF e = 0 THEN entries
                  ELSE [entries EXCEPT ![e] = WriteEntry(@, th[t].result, now, th[t].body)]
    /\ cacheMux' = 0
    /\ th' = [th EXCEPT ![t] = AfterUpdate(t, "")]
    /\ ret' = NoRet
    /\ UNCHANGED << lim, cache, content, stopChans, closes, ticker, tickerStopped,
                    cronJobs, cronRunning, reg, nreg, fetches, panicked, nops,
                    handed, stoppedKey, stoppedAll >>

\* ------------------------------------------------------------- GetCached

\* A lookup that falls back on the first key's entry when the key has none.
LookupAny(k) == IF cache[k] = 0 THEN cache[FirstKey] ELSE cache[k]

\* c.cache[path] under the read lock (lines 171-173, 199-201): the entry, or 0.
Lookup(k) == cache[k]

\* Lines 198-205: the entry is looked up under the read lock; without one the
\* call returns the not-found error.
GetCachedStart(p) ==
    /\ CanStart(p)
    /\ cacheMux = 0
    /\ \E k \in Keys :
         IF Lookup(k) = 0
         THEN /\ th' = th
              /\ ret' = RetRec("GetCached", k, 0, "notfound", 0, 0)
         ELSE /\ th' = [th EXCEPT ![p] =
                          [IdleThread EXCEPT !.pc = "gc_check", !.op = "GetCached",
                                             !.path = k, !.ent = Lookup(k),
                                             !.regs = Registered(k)]]
              /\ ret' = NoRet
    /\ nops' = nops + 1
    /\ UNCHANGED << lim, cache, entries, content, cacheMux, stopChans, closes, ticker,
                    tickerStopped, cronJobs, cronRunning, reg, nreg, fetches,
                    panicked, handed, stoppedKey, stoppedAll >>

\* An expiry check that asks the network whenever it finds the entry expired.
GetCachedCheckFetching(p) ==
    /\ Running(p)
    /\ th[p].pc = "gc_check"
    /\ th' = [th EXCEPT ![p].pc = "gc_ret",
                        ![p].expired = Expired(entries[th[p].ent]),
                        ![p].seenBy = entries[th[p].ent].by]
    /\ fetches' = IF Expired(entries[th[p].ent])
                  THEN [fetches EXCEPT ![th[p].path] = @ + 1] ELSE fetches
    /\ ret' = NoRet
    /\ UNCHANGED << lim, cache, entries, content, cacheMux, stopChans, closes, ticker,
                    tickerStopped, cronJobs, cronRunning, reg, nreg,
                    panicked, nops, handed, stoppedKey, stoppedAll >>

\* Line 207: the entry's age is judged, without the lock.
GetCachedCheck(p) ==
    /\ Running(p)
    /\ th[p].pc = "gc_check"
    /\ th' = [th EXCEPT ![p].pc = "gc_ret",
                        ![p].expired = Expired(entries[th[p].ent]),
                        ![p].seenBy = entries[th[p].ent].by]
    /\ ret' = NoRet
    /\ UNCHANGED << lim, cache, entries, content, cacheMux, stopChans, closes, ticker,
                    tickerStopped, cronJobs, cronRunning, reg, nreg, fetches,
                    panicked, nops, handed, stoppedKey, stoppedAll >>

\* Lines 208 and 211: entry.Data is returned, with the expired error or none.
GetCachedReturn(p) ==
    /\ Running(p)
    /\ th[p].pc = "gc_ret"
    /\ LET v == entries[th[p].ent].Data IN
       /\ ret' = Returns(p, v, IF th[p].expired THEN "expired" ELSE "")
       /\ handed' = IF th[p].expired THEN handed ELSE handed \cup {v}
    /\ th' = [th EXCEPT ![p] = IdleThread]
    /\ UNCHANGED << lim, cache, entries, content, cacheMux, stopChans, closes, ticker,
                    tickerStopped, cronJobs, cronRunning, reg, nreg, fetches,
                    panicked, nops, stoppedKey, stoppedAll >>

\* ------------------------------------------------------ GetCachedOrFetch

\* Lines 170-177: the entry is looked up under the read lock; without one the
\* call returns the not-found error.
GetCachedOrFetchStart(p) ==
    /\ CanStart(p)
    /\ cacheMux = 0
    /\ \E k \in Keys :
         IF Lookup(k) = 0
         THEN /\ th' = th
              /\ ret' = RetRec("GetCachedOrFetch", k, 0, "notfound", 0, 0)
         ELSE /\ th' = [th EXCEPT ![p] =
                          [IdleThread EXCEPT !.pc = "gf_check", !.op = "GetCachedOrFetch",
                                             !.path = k, !.ent = Lookup(k),
                                             !.regs = Registered(k)]]
              /\ ret' = NoRet
    /\ nops' = nops + 1
    /\ UNCHANGED << lim, cache, entries, content, cacheMux, stopChans, closes, ticker,
                    tickerStopped, cronJobs, cronRunning, reg, nreg, fetches,
                    panicked, handed, stoppedKey, stoppedAll >>

\* Line 181: needsFetch is computed from the entry, without the lock.
GetCachedOrFetchCheck(p) ==
    /\ Running(p)
    /\ th[p].pc = "gf_check"
    /\ th' = [th EXCEPT ![p].pc = IF NeedsFetch(entries[th[p].ent]) THEN "gf_arg" ELSE "gf_ret"]
    /\ ret' = NoRet
    /\ UNCHANGED << lim, cache, entries, content, cacheMux, stopChans, closes, ticker,
                    tickerStopped, cronJobs, cronRunning, reg, nreg, fetches,
                    panicked, nops, handed, stoppedKey, stoppedAll >>

\* Line 184: entry.Data is read and passed to updateCache as its destination.
GetCachedOrFetchArg(p) ==
    /\ Running(p)
    /\ th[p].pc = "gf_arg"
    /\ th' = [th EXCEPT ![p].pc = "uc_get", ![p].result = entries[th[p].ent].Data]
    /\ ret' = NoRet
    /\ UNCHANGED << lim, cache, entries, content, cacheMux, stopChans, closes, ticker,
                    tickerStopped, cronJobs, cronRunning, reg, nreg, fetches,
                    panicked, nops, handed, stoppedKey, stoppedAll >>

\* Lines 188-191: the entry is looked up again under the read lock.
GetCachedOrFetchReget(p) ==
    /\ Running(p)
    /\ th[p].pc = "gf_reget"
    /\ cacheMux = 0
    /\ th' = [th EXCEPT ![p].pc = "gf_ret", ![p].ent = Lookup(th[p].path)]
    /\ ret' = NoRet
    /\ UNCHANGED << lim, cache, entries, content, cacheMux, stopChans, closes, ticker,
                    tickerStopped, cronJobs, cronRunning, reg, nreg, fetches,
                    panicked, nops, handed, stoppedKey, stoppedAll >>

\* Line 194: entry.Data is returned.
GetCachedOrFetchReturn(p) ==
    /\ Running(p)
    /\ th[p].pc = "gf_ret"
    /\ LET v == entries[th[p].ent].Data IN
       /\ ret' = Returns(p, v, "")
       /\ handed' = handed \cup {v}
    /\ th' = [th EXCEPT ![p] = IdleThread]
    /\ UNCHANGED << lim, cache, entries, content, cacheMux, stopChans, closes, ticker,
                    tickerStopped, cronJobs, cronRunning, reg, nreg, fetches,
                    panicked, nops, stoppedKey, stoppedAll >>

\* ------------------------------------------------- StopCacheUpdates, Stop

\* Line 216: c.stopChans[path] is read; without a channel the call returns.
StopCacheUpdatesStart(p) ==
    /\ CanStart(p)
    /\ \E k \in Keys :
         IF stopChans[k] = 0
         THEN /\ th' = th
              /\ ret' = RetRec("StopCacheUpdates", k, 0, "", 0, 0)
              /\ stoppedKey' = stoppedKey \cup Registered(k)
         ELSE /\ th' = [th EXCEPT ![p] =
                          [IdleThread EXCEPT !.pc = "sc_close", !.op = "StopCacheUpdates",
                                             !.path = k, !.ch = stopChans[k],
                                             !.regs = Registered(k)]]
              /\ ret' = NoRet
              /\ UNCHANGED stoppedKey
    /\ nops' = nops + 1
    /\ UNCHANGED << lim, cache, entries, content, cacheMux, stopChans, closes, ticker,
                    tickerStopped, cronJobs, cronRunning, reg, nreg, fetches,
                    panicked, handed, stoppedAll >>

\* A StopCacheUpdates that closes every channel of c.stopChans.
StopCacheUpdatesCloseAll(p) ==
    /\ Running(p)
    /\ th[p].pc = "sc_close"
    /\ closes' = [r \in Regs |->
                    IF \E k \in Keys : stopChans[k] = r THEN closes[r] + 1 ELSE closes[r]]
    /\ panicked' = (closes[th[p].ch] >= 1)
    /\ th' = [th EXCEPT ![p].pc = "sc_delete"]
    /\ ret' = NoRet
    /\ UNCHANGED << lim, cache, entries, content, cacheMux, stopChans, ticker,
                    tickerStopped, cronJobs, cronRunning, reg, nreg, fetches, nops,
                    handed, stoppedKey, stoppedAll >>

\* Line 217: close(stopChan); closing a closed channel panics.
StopCacheUpdatesClose(p) ==
    /\ Running(p)
    /\ th[p].pc = "sc_close"
    /\ closes' = [closes EXCEPT ![th[p].ch] = @ + 1]
    /\ panicked' = (closes[th[p].ch] >= 1)
    /\ th' = [th EXCEPT ![p].pc = "sc_delete"]
    /\ ret' = NoRet
    /\ UNCHANGED << lim, cache, entries, content, cacheMux, stopChans, ticker,
                    tickerStopped, cronJobs, cronRunning, reg, nreg, fetches, nops,
                    handed, stoppedKey, stoppedAll >>

\* A StopCacheUpdates that leaves the closed channel in c.stopChans.
StopCacheUpdatesKeep(p) ==
    /\ Running(p)
    /\ th[p].pc = "sc_delete"
    /\ IF th[p].op = "Stop"
       THEN /\ th' = [th EXCEPT ![p].pc = "st_loop", ![p].path = "", ![p].ch = 0]
            /\ ret' = NoRet
            /\ UNCHANGED stoppedKey
       ELSE /\ th' = [th EXCEPT ![p] = IdleThread]
            /\ ret' = Returns(p, 0, "")
            /\ stoppedKey' = stoppedKey \cup th[p].regs
    /\ UNCHANGED << lim, cache, entries, content, cacheMux, stopChans, closes, ticker,
                    tickerStopped, cronJobs, cronRunning, reg, nreg, fetches,
                    panicked, nops, handed, stoppedAll >>

\* Line 218: delete(c.stopChans, path); StopCacheUpdates returns, to its caller
\* or into the loop of Stop.
StopCacheUpdatesDelete(p) ==
    /\ Running(p)
    /\ th[p].pc = "sc_delete"
    /\ stopChans' = [stopChans EXCEPT ![th[p].path] = 0]
    /\ IF th[p].op = "Stop"
       THEN /\ th' = [th EXCEPT ![p].pc = "st_loop", ![p].path = "", ![p].ch = 0]
            /\ ret' = NoRet
            /\ UNCHANGED stoppedKey
       ELSE /\ th' = [th EXCEPT ![p] = IdleThread]
            /\ ret' = Returns(p, 0, "")
            /\ stoppedKey' = stoppedKey \cup th[p].regs
    /\ UNCHANGED << lim, cache, entries, content, cacheMux, closes, ticker,
                    tickerStopped, cronJobs, cronRunning, reg, nreg, fetches,
                    panicked, nops, handed, stoppedAll >>

\* The keys that hold a stop channel.
WithChan == { k \in Keys : stopChans[k] # 0 }

\* Lines 119-125: every ticker of c.ticker is stopped.
StopStart(p) ==
    /\ CanStart(p)
    /\ tickerStopped' = [r \in Regs |->
                           tickerStopped[r] \/ (\E k \in Keys : ticker[k] = r)]
    /\ th' = [th EXCEPT ![p] =
                [IdleThread EXCEPT !.pc = "st_loop", !.op = "Stop", !.start = WithChan,
                                   !.regs = UNION { Registered(k) : k \in Keys }]]
    /\ nops' = nops + 1
    /\ ret' = NoRet
    /\ UNCHANGED << lim, cache, entries, content, cacheMux, stopChans, closes, ticker,
                    cronJobs, cronRunning, reg, nreg, fetches, panicked,
                    handed, stoppedKey, stoppedAll >>

\* Lines 128-130: the range over c.stopChans yields a key not yet reached that
\* is still in the map (one added meanwhile may be yielded or skipped), and
\* StopCacheUpdates reads its channel (line 216); or the range ends.
StopLoop(p) ==
    /\ Running(p)
    /\ th[p].pc = "st_loop"
    /\ \/ \E k \in WithChan \ th[p].visited :
            th' = [th EXCEPT ![p].pc = "sc_close", ![p].path = k,
                             ![p].ch = stopChans[k], ![p].visited = @ \cup {k}]
       \/ /\ (th[p].start \cap WithChan) \ th[p].visited = {}
          /\ th' = [th EXCEPT ![p].pc = "st_cron", ![p].start = {}, ![p].visited = {}]
    /\ ret' = NoRet
    /\ UNCHANGED << lim, cache, entries, content, cacheMux, stopChans, closes, ticker,
                    tickerStopped, cronJobs, cronRunning, reg, nreg, fetches,
                    panicked, nops, handed, stoppedKey, stoppedAll >>

\* Lines 132-136: c.cron.Stop(); Stop returns.
StopCron(p) ==
    /\ Running(p)
    /\ th[p].pc = "st_cron"
    /\ cronRunning' = FALSE
    /\ th' = [th EXCEPT ![p] = IdleThread]
    /\ ret' = Returns(p, 0, "")
    /\ stoppedAll' = stoppedAll \cup th[p].regs
    /\ UNCHANGED << lim, cache, entries, content, cacheMux, stopChans, closes, ticker,
                    tickerStopped, cronJobs, reg, nreg, fetches, panicked, nops,
                    handed, stoppedKey >>

\* --------------------------------------------------- the scheduled tasks

\* A ticker goroutine whose select has no case for the stop channel.
TickerSelectTicksOnly(r) ==
    /\ Running(Bg(r))
    /\ th[Bg(r)].pc = "bg_wait"
    /\ ~tickerStopped[r]
    /\ th' = [th EXCEPT ![Bg(r)].pc = "bg_check"]
    /\ ret' = NoRet
    /\ UNCHANGED << lim, cache, entries, content, cacheMux, stopChans, closes, ticker,
                    tickerStopped, cronJobs, cronRunning, reg, nreg, fetches, panicked,
                    nops, handed, stoppedKey, stoppedAll >>

\* Lines 95-105: the ticker goroutine's select: a tick (a ticker that is not
\* stopped sends one every period) calls updateFunc, the closed stop channel
\* stops the ticker and ends the goroutine; with both ready either is taken.
TickerSelect(r) ==
    /\ Running(Bg(r))
    /\ th[Bg(r)].pc = "bg_wait"
    /\ \/ /\ ~tickerStopped[r]
          /\ th' = [th EXCEPT ![Bg(r)].pc = "bg_check"]
          /\ UNCHANGED tickerStopped
       \/ /\ closes[r] >= 1
          /\ tickerStopped' = [tickerStopped EXCEPT ![r] = TRUE]
          /\ th' = [th EXCEPT ![Bg(r)].pc = "bg_exit"]
    /\ ret' = NoRet
    /\ UNCHANGED << lim, cache, entries, content, cacheMux, stopChans, closes, ticker,
                    cronJobs, cronRunning, reg, nreg, fetches, panicked, nops,
                    handed, stoppedKey, stoppedAll >>

\* robfig/cron: a started cron runs each of its jobs at the job's instants.
CronFire(r) ==
    /\ Running(Bg(r))
    /\ th[Bg(r)].pc = "bg_idle"
    /\ r \in cronJobs
    /\ cronRunning
    /\ th' = [th EXCEPT ![Bg(r)].pc = "bg_check"]
    /\ ret' = NoRet
    /\ UNCHANGED << lim, cache, entries, content, cacheMux, stopChans, closes, ticker,
                    tickerStopped, cronJobs, cronRunning, reg, nreg, fetches,
                    panicked, nops, handed, stoppedKey, stoppedAll >>

\* An updateFunc that always takes its stop channel for closed.
PassesCheckNever(r) == FALSE

\* An updateFunc that refreshes whenever the cron evaluator is running.
PassesCheckWhileRunning(r) == cronRunning

\* Whether updateFunc goes on to refresh (lines 64-67): not once the stop
\* channel it captured is closed.
PassesCheck(r) == closes[r] = 0

\* Lines 63-74: updateFunc returns at once when its stop channel is closed, and
\* calls updateCache otherwise.
UpdateFunc(r) ==
    /\ Running(Bg(r))
    /\ th[Bg(r)].pc = "bg_check"
    /\ th' = [th EXCEPT ![Bg(r)].pc =
                IF PassesCheck(r) THEN "uc_get"
                ELSE IF reg[r].kind = "ticker" THEN "bg_wait" ELSE "bg_idle"]
    /\ ret' = NoRet
    /\ UNCHANGED << lim, cache, entries, content, cacheMux, stopChans, closes, ticker,
                    tickerStopped, cronJobs, cronRunning, reg, nreg, fetches,
                    panicked, nops, handed, stoppedKey, stoppedAll >>

\* ------------------------------------------------------------------ clock

\* One unit of time passes: every stored instant is one unit further back.
Earlier(u) == IF u = ZeroTime \/ u <= now - MaxAge THEN u ELSE u - 1

Tick ==
    /\ ~panicked
    /\ \E r \in 1..nreg : Earlier(entries[r].UpdatedAt) # entries[r].UpdatedAt
    /\ entries' = [r \in Regs |-> [entries[r] EXCEPT !.UpdatedAt = Earlier(@)]]
    /\ ret' = NoRet
    /\ UNCHANGED << lim, cache, content, cacheMux, stopChans, closes, ticker,
                    tickerStopped, cronJobs, cronRunning, reg, nreg, th,
                    fetches, panicked, nops, handed, stoppedKey, stoppedAll >>

\* The steps of SetupCachedEndpoint, of updateCache and of the scheduled tasks.
Refreshing ==
    \/ \E p \in Procs : SetupStart(p)
    \/ \E p \in Procs : SetupChan(p)
    \/ \E p \in Procs : SetupSchedule(p)
    \/ \E t \in Threads : UpdateGet(t)
    \/ \E t \in Threads : UpdateDecode(t)
    \/ \E t \in Threads : UpdateLock(t)
    \/ \E t \in Threads : UpdateWrite(t)
    \/ \E r \in Regs : TickerSelect(r)
    \/ \E r \in Regs : CronFire(r)
    \/ \E r \in Regs : UpdateFunc(r)

\* The steps of GetCached and GetCachedOrFetch.
Reading ==
    \/ \E p \in Procs : GetCachedStart(p)
    \/ \E p \in Procs : GetCachedCheck(p)
    \/ \E p \in Procs : GetCachedReturn(p)
    \/ \E p \in Procs : GetCachedOrFetchStart(p)
    \/ \E p \in Procs : GetCachedOrFetchCheck(p)
    \/ \E p \in Procs : GetCachedOrFetchArg(p)
    \/ \E p \in Procs : GetCachedOrFetchReget(p)
    \/ \E p \in Procs : GetCachedOrFetchReturn(p)

\* The steps of StopCacheUpdates and Stop.
Stopping ==
    \/ \E p \in Procs : StopCacheUpdatesStart(p)
    \/ \E p \in Procs : StopCacheUpdatesClose(p)
    \/ \E p \in Procs : StopCacheUpdatesDelete(p)
    \/ \E p \in Procs : StopStart(p)
    \/ \E p \in Procs : StopLoop(p)
    \/ \E p \in Procs : StopCron(p)

Next ==
    \/ Refreshing
    \/ Reading
    \/ Stopping
    \/ Tick

\* Every operation, on one registration.
Spec == Init /\ [][Next]_vars

NextLife ==
    \/ Refreshing
    \/ Stopping

\* One caller at a time registering (again, or another key) and stopping,
\* beside the scheduled tasks.
SpecLife == InitLife /\ [][NextLife]_vars

\* The steps of registration r's scheduled task: the goroutine started at line
\* 95, or the runs of its cron job.
TaskStep(r) ==
    \/ TickerSelect(r)
    \/ CronFire(r)
    \/ UpdateFunc(r)
    \/ UpdateGet(Bg(r))
    \/ UpdateDecode(Bg(r))
    \/ UpdateLock(Bg(r))
    \/ UpdateWrite(Bg(r))

\* The ticker goroutine's select takes the case of the closed stop channel
\* (lines 100-102).
TickerExit(r) == TickerSelect(r) /\ th'[Bg(r)].pc = "bg_exit"

\* The steps of a call of caller p that is under way, the network request of
\* updateCache apart: a request under the caller's context may never end.
CallStep(p) ==
    \/ SetupChan(p)
    \/ SetupSchedule(p)
    \/ UpdateDecode(p)
    \/ UpdateLock(p)
    \/ UpdateWrite(p)
    \/ StopCacheUpdatesClose(p)
    \/ StopCacheUpdatesDelete(p)
    \/ StopLoop(p)
    \/ StopCron(p)

\* The Go scheduler runs every goroutine that can run; a ticker that is not
\* stopped keeps ticking and a started cron keeps firing; the request of a
\* scheduled refresh ends within the ten seconds of its context (line 68); a
\* select that finds the closed stop channel ready time and again takes that
\* case sooner or later (select picks among its ready cases at random).
Fairness ==
    /\ \A r \in Regs : WF_vars(TaskStep(r)) /\ SF_vars(TickerExit(r))
    /\ \A p \in Procs : WF_vars(CallStep(p))

\* One caller registering one key and stopping it, beside the scheduled task,
\* under fair scheduling.
SpecFair == InitFair /\ [][NextLife]_vars /\ Fairness

\* Every operation, concurrent callers registering keys again.
SpecRace == InitRace /\ [][Next]_vars

\* ------------------------------------------------------- memory accesses

\* The access to shared memory that thread t's next step makes: the location,
\* whether it is written, and whether the thread holds c.cacheMux for it.
\* (Steps that only take a lock, close a channel or call into cron, which
\* synchronise by themselves, make none.)
Access(t) ==
    LET pc == th[t].pc
        A(loc, w, l) == { [loc |-> loc, write |-> w, lock |-> l] }
    IN
    CASE pc = "su_chan"   -> A(<<"stopChans">>, TRUE, FALSE)                \* line 61
      [] pc = "uc_decode" -> A(<<"dest", th[t].result>>, TRUE, FALSE)       \* line 155
      [] pc = "uc_write"  -> A(<<"entry", cache[th[t].path]>>, TRUE, TRUE)  \* lines 161-162
      [] pc = "gc_check"  -> A(<<"entry", th[t].ent>>, FALSE, FALSE)        \* line 207
      [] pc = "gc_ret"    -> A(<<"entry", th[t].ent>>, FALSE, FALSE)        \* lines 208, 211
      [] pc = "gf_check"  -> A(<<"entry", th[t].ent>>, FALSE, FALSE)        \* line 181
      [] pc = "gf_arg"    -> A(<<"entry", th[t].ent>>, FALSE, FALSE)        \* line 184
      [] pc = "gf_ret"    -> A(<<"entry", th[t].ent>>, FALSE, FALSE)        \* line 194
      [] pc = "sc_delete" -> A(<<"stopChans">>, TRUE, FALSE)                \* line 218
      [] pc = "st_loop"   -> A(<<"stopChans">>, FALSE, FALSE)               \* lines 128, 216
      [] OTHER -> {}

\* ================================================================ claims

\* Two accesses conflict: the same location, one of them a write, and not both
\* under the lock.
Conflict(a, b) ==
    /\ a.loc = b.loc
    /\ a.write \/ b.write
    /\ ~(a.lock /\ b.lock)

\* Thread p, inside GetCachedOrFetch, has issued its network request and has not
\* yet written the entry.
Fetching(p) ==
    /\ th[p].op = "GetCachedOrFetch"
    /\ th[p].pc \in {"uc_decode", "uc_lock", "uc_write"}

\* C1: concurrent GetCachedOrFetch calls on the same key whose entry is stale
\* or never populated issue at most one network fetch: no two of them are
\* between their request and their write of the entry at the same time.
C1_SingleFetch ==
    \A p, q \in Procs :
        (p # q /\ th[p].path = th[q].path) => ~(Fetching(p) /\ Fetching(q))

\* C2: no reader observes a torn entry: the content of the value GetCached
\* returns without error is the payload of the refresh that wrote the
\* UpdatedAt the call judged fresh.
C2_NoTornRead ==
    (ret.op = "GetCached" /\ ret.err = "") => ret.snap = ret.seenBy

\* Registration r's scheduled task starts a refresh in this step: its
\* updateFunc passes the check of its stop channel and calls updateCache.
StartsRefresh(r) ==
    /\ th[Bg(r)].pc = "bg_check"
    /\ th'[Bg(r)].pc = "uc_get"

\* C3: registering a key again replaces the prior registration's task: once
\* a SetupCachedEndpoint of the key that began after registration r has
\* returned nil, r's task starts no refresh.
C3_TaskReplaced ==
    [][\A r \in Regs :
          StartsRefresh(r) => ~(\E s \in Registered(reg[r].path) : r \in reg[s].over)]_vars

\* Thread t's call of updateCache returns an error in this step (lines 142,
\* 147, 152, 156): it leaves the request or the decoding without going on to
\* the locked write.
RefreshFails(t) ==
    /\ th[t].pc \in {"uc_get", "uc_decode"}
    /\ th'[t].pc \notin {"uc_get", "uc_decode", "uc_lock"}

\* What reads of the entries' values observe: each entry's fields and the
\* content of its Data.
Observable ==
    [r \in Regs |-> << entries[r],
                       IF entries[r].Data = 0 THEN 0 ELSE content[entries[r].Data] >>]

\* C4: a refresh that fails leaves every entry as it was: neither UpdatedAt nor
\* the value observable through reads changes.
C4_FailedRefreshKeeps ==
    [][(\E t \in Threads : RefreshFails(t)) => Observable' = Observable]_vars

\* C5: after StopCacheUpdates(key) has returned, no scheduled task of a
\* registration of that key made before the call starts a refresh.
C5_StoppedKeyQuiet ==
    [][\A r \in stoppedKey : ~StartsRefresh(r)]_vars

\* C6: after Stop() has returned, no scheduled task of a registration made
\* before the call starts a refresh.
C6_StoppedAllQuiet ==
    [][\A r \in stoppedAll : ~StartsRefresh(r)]_vars

\* C7: each stop channel is closed at most once, under every interleaving of
\* StopCacheUpdates and Stop calls.
C7_ClosedOnce == \A r \in Regs : closes[r] <= 1

\* C8: the operations are free of data races: no two threads are about to
\* access the same shared location, one of them writing, unless both hold the
\* cache lock.
C8_NoDataRace ==
    \A t, u \in Threads :
        t # u => \A a \in Access(t), b \in Access(u) : ~Conflict(a, b)

\* C9: a value handed to a caller by GetCached or GetCachedOrFetch (here:
\* returned without an error) is never mutated in place afterwards.
C9_HandedImmutable ==
    [][\A d \in handed : content'[d] = content[d]]_vars

\* The keys on which SetupCachedEndpoint has never been called.
NeverRegistered == { k \in Keys : \A r \in 1..nreg : reg[r].path # k }

\* C10: on a key never registered, GetCached and GetCachedOrFetch return the
\* not-found error and no value, issue no network request and create no entry.
C10_NotFound ==
    /\ (ret.op \in {"GetCached", "GetCachedOrFetch"} /\ ret.path \in NeverRegistered)
           => (ret.err = "notfound" /\ ret.val = 0 /\ ret.fetched = 0)
    /\ \A k \in NeverRegistered :
           /\ cache[k] = 0
           /\ fetches[k] = 0
           /\ \A p \in Procs : th[p].path # k

\* C10's case: while a key is registered, GetCachedOrFetch of another key, never
\* registered, has returned.
C10_Witness ==
    /\ nreg >= 1
    /\ ret.op = "GetCachedOrFetch"
    /\ ret.path \in NeverRegistered
    /\ ret.err = "notfound"

\* The entry's freshness window has not elapsed since its last write.
InWindow(e) == e.UpdatedAt # ZeroTime /\ e.UpdatedAt >= now - e.Expiration

\* C11: when SetupCachedEndpoint with SkipInitialFetch=false has returned nil,
\* a GetCached of the key that begins afterwards, within the freshness window
\* and with the initial fetch the key's only request so far, returns the
\* decoded payload of that fetch and no error.
C11_FreshAfterSetup ==
    \A r \in ret.after :
        ( /\ ret.op = "GetCached"
          /\ ~reg[r].skip
          /\ cache[ret.path] = r
          /\ fetches[ret.path] = 1
          /\ InWindow(entries[r]) )
        => ( /\ ret.err = ""
             /\ ret.val = reg[r].result
             /\ ret.snap > 0
             /\ ret.snap = entries[r].by )

\* C11's case: such a GetCached has returned the payload.
C11_Witness ==
    /\ ret.op = "GetCached"
    /\ \E r \in ret.after : ~reg[r].skip /\ fetches[ret.path] = 1
    /\ ret.err = ""
    /\ ret.snap = 1

\* C12: a SetupCachedEndpoint with SkipInitialFetch=true returns without
\* having issued a network request (none at all was issued when it is the only
\* call so far); a GetCached of the key that begins afterwards, before any
\* request for the key, returns the value with the expired error; and a
\* GetCachedOrFetch that begins afterwards, before any other request for the
\* key, issues exactly one.
C12_SkipInitialFetch ==
    /\ (ret.op = "Setup" /\ reg[ret.rid].skip)
           => (ret.fetched = 0 /\ (nops = 1 => TotalFetches = 0))
    /\ \A r \in ret.after :
           ( /\ ret.op \in {"GetCached", "GetCachedOrFetch"}
             /\ reg[r].skip
             /\ cache[ret.path] = r ) =>
               /\ (ret.op = "GetCached" /\ fetches[ret.path] = 0)
                      => (ret.err = "expired" /\ ret.val = reg[r].result /\ ret.snap = 0)
               /\ (ret.op = "GetCachedOrFetch" /\ fetches[ret.path] = ret.fetched)
                      => ret.fetched = 1

\* C12's case: after a registration that skipped the initial fetch, a
\* GetCachedOrFetch has returned the payload of the key's only request, its own.
C12_Witness ==
    /\ ret.op = "GetCachedOrFetch"
    /\ \E r \in ret.after : reg[r].skip /\ cache[ret.path] = r
    /\ fetches[ret.path] = 1
    /\ ret.fetched = 1
    /\ ret.err = ""
    /\ ret.snap = 1

\* C13: GetCached judges an entry last written at T with window W at the time
\* t of its check: it returns the entry's value with the expired error iff
\* t - T > W, and with no error iff t - T <= W; the value is returned either way.
C13_ExpiredIffPastWindow ==
    [][\A p \in Procs :
          /\ (th[p].pc = "gc_check" /\ th'[p].pc = "gc_ret")
                 => (th'[p].expired <=>
                        now - entries[th[p].ent].UpdatedAt > entries[th[p].ent].Expiration)
          /\ (th[p].pc = "gc_ret" /\ th'[p].pc # "gc_ret")
                 => /\ ret'.op = "GetCached"
                    /\ ret'.err = (IF th[p].expired THEN "expired" ELSE "")
                    /\ ret'.val = entries[th[p].ent].Data
                    /\ ret'.val # 0]_vars

\* C13's case: GetCached has returned the payload of the last refresh, written
\* one unit more than the window ago, with the expired error.
C13_Witness ==
    /\ ret.op = "GetCached"
    /\ ret.err = "expired"
    /\ ret.snap > 0
    /\ ret.snap = ret.seenBy
    /\ entries[cache[ret.path]].UpdatedAt = now - entries[cache[ret.path]].Expiration - 1

\* C14: a GetCachedOrFetch that finds its entry fresh (populated, its window not
\* elapsed) goes straight to its return, and returns the entry's value with no
\* error, without a network request and without a write to the entries or to
\* the value.
C14_FreshFastPath ==
    [][\A p \in Procs :
          /\ (th[p].pc = "gf_check" /\ th'[p].pc # "gf_check" /\ InWindow(entries[th[p].ent]))
                 => /\ th'[p].pc = "gf_ret"
                    /\ fetches' = fetches /\ entries' = entries /\ content' = content
          /\ (th[p].pc = "gf_ret" /\ th'[p].pc # "gf_ret" /\ th[p].fetched = 0)
                 => /\ ret'.op = "GetCachedOrFetch"
                    /\ ret'.err = "" /\ ret'.fetched = 0
                    /\ ret'.val = entries[th[p].ent].Data /\ ret'.val # 0
                    /\ fetches' = fetches /\ entries' = entries /\ content' = content]_vars

\* C14's case: a GetCachedOrFetch has returned the payload of an earlier
\* refresh of the fresh entry without a request of its own.
C14_Witness ==
    /\ ret.op = "GetCachedOrFetch"
    /\ ret.err = ""
    /\ ret.fetched = 0
    /\ ret.snap > 0
    /\ InWindow(entries[cache[ret.path]])

\* C15: a GetCachedOrFetch of a registered key that finds its entry stale or
\* never populated calls updateCache before it returns; a successful decode
\* leaves the fetched
\* payload in the value, the locked write makes the entry fresh, and the call
\* then returns the entry's value with no error after exactly one request;
\* when that request is the only one issued so far, the value returned holds
\* its payload.
C15_StaleRefreshes ==
    [][\A p \in Procs : (th[p].op = "GetCachedOrFetch" /\ th[p].regs # {}) =>
          /\ (th[p].pc = "gf_check" /\ th'[p].pc # "gf_check" /\ ~InWindow(entries[th[p].ent]))
                 => th'[p].pc = "gf_arg"
          /\ (th[p].pc = "gf_arg" /\ th'[p].pc # "gf_arg")
                 => th'[p].pc = "uc_get"
          /\ (th[p].pc = "uc_decode" /\ th'[p].pc = "uc_lock")
                 => content'[th[p].result] = th[p].body
          /\ (th[p].pc = "uc_write" /\ th'[p].pc # "uc_write")
                 => /\ th'[p].pc = "gf_reget"
                    /\ LET e == entries'[cache[th[p].path]] IN
                       e.Data = th[p].result /\ e.UpdatedAt = now /\ InWindow(e)
          /\ (th[p].pc = "gf_ret" /\ th'[p].pc # "gf_ret" /\ th[p].fetched > 0)
                 => /\ ret'.op = "GetCachedOrFetch"
                    /\ ret'.err = "" /\ ret'.fetched = 1
                    /\ ret'.val = entries[th[p].ent].Data /\ ret'.val # 0
                    /\ TotalFetches = 1 => ret'.snap = th[p].body]_vars


\* C16: when the refresh inside a GetCachedOrFetch of a registered key fails,
\* the call returns an error and no value, and the entries and the values reads
\* observe are as they were before.
C16_FailedFetchKeeps ==
    [][\A p \in Procs :
          (th[p].op = "GetCachedOrFetch" /\ th[p].regs # {} /\ RefreshFails(p))
              => /\ ret'.op = "GetCachedOrFetch"
                 /\ ret'.err \notin {"", "notfound"}
                 /\ ret'.val = 0
                 /\ Observable' = Observable]_vars

\* C17: GetCached never asks the network: no step of a GetCached call changes
\* the requests issued, the entries or the values; and with other GetCached
\* calls in progress, a GetCached of a key registered with its initial fetch,
\* that fetch being the key's only request and the window not elapsed, returns
\* a value and no error.
C17_ReadsDoNotFetch ==
    [][\A p \in Procs : th[p].op = "GetCached" =>
          /\ th'[p] # th[p]
                 => fetches' = fetches /\ entries' = entries /\ content' = content
          /\ ( /\ th[p].pc = "gc_ret" /\ th'[p].pc # "gc_ret"
               /\ \E r \in th[p].regs : ~reg[r].skip /\ cache[th[p].path] = r
                                        /\ InWindow(entries[r])
               /\ fetches[th[p].path] = 1 )
                 => /\ ret'.err = ""
                    /\ ret'.val # 0
                    /\ fetches'[th[p].path] = 1]_vars

\* C17's case: while another GetCached of the key is in progress, a GetCached
\* has returned the payload without error, the initial fetch still the only
\* request.
C17_Witness ==
    /\ ret.op = "GetCached"
    /\ ret.err = ""
    /\ ret.snap = 1
    /\ TotalFetches = 1
    /\ \E r \in ret.after : ~reg[r].skip
    /\ \E q \in Procs : th[q].op = "GetCached" /\ th[q].path = ret.path /\ th[q].regs # {}

\* C18: when the initial fetch of SetupCachedEndpoint fails, the call returns
\* an error and, its request being the only one issued so far, the key's entry
\* is unpopulated, never written, and its value holds no data of the response.
C18_FailedInitialFetch ==
    (ret.op = "Setup" /\ ret.fetched = 1 /\ ret.err # "schedule" /\ ret.err # "" /\ TotalFetches = 1)
        => LET e == entries[ret.rid] IN
           /\ ret.err \in {"fetch", "ctx", "status", "read", "decode"}
           /\ cache[ret.path] = ret.rid
           /\ e.UpdatedAt = ZeroTime /\ e.by = 0
           /\ content[e.Data] = 0

\* A CronSpec SetupCachedEndpoint cannot resolve: an "@every" whose duration
\* does not parse, or an expression cron rejects.
Unresolvable(spec) == (spec.every /\ spec.dur = -1) \/ ~spec.ok

\* C19: SetupCachedEndpoint returns an error whenever the schedule cannot be
\* resolved, and nil otherwise; after the error no ticker, cron job or goroutine
\* of the registration exists.
C19_ScheduleError ==
    (ret.op = "Setup" /\ ret.spec # NoSpec)
        => /\ (Unresolvable(ret.spec) <=> (ret.err = "schedule"))
           /\ (~Unresolvable(ret.spec) <=> (ret.err = ""))
           /\ ret.err = "schedule"
                  => /\ reg[ret.rid].kind = "none"
                     /\ th[Bg(ret.rid)].op # "bg"
                     /\ ret.rid \notin cronJobs
                     /\ ticker[ret.path] # ret.rid

\* C19's case: after a successful initial fetch, SetupCachedEndpoint has
\* returned the schedule error for an "@every" with an unparsable duration.
C19_Witness ==
    /\ ret.op = "Setup"
    /\ ret.err = "schedule"
    /\ ret.spec.every
    /\ ret.fetched = 1

\* C20: a failed scheduled refresh is swallowed: no call returns in that step,
\* the entries and the values reads observe are as they were, and the task goes
\* back to waiting for its next trigger.
C20_BackgroundFailureSwallowed ==
    [][\A r \in Regs :
          RefreshFails(Bg(r))
              => /\ ret' = NoRet
                 /\ Observable' = Observable
                 /\ th'[Bg(r)].pc \in {"bg_wait", "bg_idle"}]_vars

\* Registration r's scheduled task is stopped: its stop channel is closed or
\* its ticker stopped.
TaskStopped(r) == closes[r] >= 1 \/ tickerStopped[r]

\* A scheduled refresh of registration r writes the entry in this step.
TaskWrites(r) ==
    /\ th[Bg(r)].pc = "uc_write"
    /\ th'[Bg(r)].pc # "uc_write"

StopBegins(k) ==
    /\ nops' = nops + 1
    /\ \/ th' = th /\ ret'.op = "StopCacheUpdates" /\ ret'.path = k
       \/ \E p \in Procs : /\ th[p].pc = "idle"
                           /\ th'[p].op = "StopCacheUpdates"
                           /\ th'[p].path = k

\* Key k is registered, every call of SetupCachedEndpoint for it has returned
\* nil, and each is covered by a StopCacheUpdates(k) or a Stop() that has
\* returned.
AlreadyStopped(k) ==
    /\ Registered(k) # {}
    /\ Registered(k) = { r \in 1..nreg : reg[r].path = k }
    /\ Registered(k) \subseteq (stoppedKey \cup stoppedAll)

\* C22: StopCacheUpdates on a key already stopped, or never registered,
\* returns at once and changes nothing: no panic, no channel closed, no map or
\* entry touched; no step of StopCacheUpdates waits for a lock or a refresh,
\* and none touches the cache entries.
C22_StopIdempotent ==
    /\ [][\A k \in Keys :
             (StopBegins(k) /\ (k \in NeverRegistered \/ AlreadyStopped(k)))
                 => /\ th' = th
                    /\ ret'.op = "StopCacheUpdates" /\ ret'.path = k /\ ret'.err = ""
                    /\ ~panicked'
                    /\ UNCHANGED << cache, entries, content, cacheMux, stopChans, closes,
                                    ticker, tickerStopped, cronJobs, cronRunning >>]_vars
    /\ [][\A p \in Procs :
             (th[p].op = "StopCacheUpdates" /\ th'[p] # th[p])
                 => UNCHANGED << cache, entries, content >>]_vars
    /\ [](\A p \in Procs :
             (th[p].op = "StopCacheUpdates" /\ ~panicked)
                 => ENABLED (StopCacheUpdatesClose(p) \/ StopCacheUpdatesDelete(p)))

\* C22's case: a StopCacheUpdates has returned at once on a registered key
\* whose channel an earlier StopCacheUpdates closed, while a refresh of the key
\* holds the cache lock.
C22_Witness ==
    /\ ret.op = "StopCacheUpdates"
    /\ ret.after = {}
    /\ ~panicked
    /\ \E r \in Registered(ret.path) : closes[r] = 1 /\ r \in stoppedKey
    /\ cacheMux # 0

\* C23: a foreground request that ends because the caller's context is done
\* (the initial fetch of SetupCachedEndpoint, the refresh of GetCachedOrFetch)
\* makes the call return that error and no value in the same step: nothing is
\* decoded, no entry is written, and the call is over.
C23_ContextHonoured ==
    [][\A p \in Procs :
          (th[p].pc = "uc_get" /\ th'[p].pc # "uc_get" /\ ret'.err = "ctx")
              => /\ th[p].op \in {"Setup", "GetCachedOrFetch"}
                 /\ ret'.op = th[p].op /\ ret'.path = th[p].path
                 /\ ret'.val = 0
                 /\ th'[p] = IdleThread
                 /\ entries' = entries /\ content' = content /\ cache' = cache]_vars

\* C23's case: a GetCachedOrFetch on an entry an earlier refresh had populated
\* has returned the context's error; the entry still holds that refresh.
C23_Witness ==
    /\ ret.op = "GetCachedOrFetch"
    /\ ret.err = "ctx"
    /\ ret.fetched = 1
    /\ LET e == entries[cache[ret.path]] IN
       e.by = 1 /\ content[e.Data] = 1 /\ TotalFetches = 2

\* C24: a scheduled refresh that is under way when StopCacheUpdates(key)
\* returns is not cancelled: once it holds the lock its write can be taken,
\* and the write stores its destination and the present instant in the key's
\* entry.
C24_InFlightOutlivesStop ==
    /\ [][\A r \in stoppedKey :
             TaskWrites(r)
                 => LET e == entries'[cache[reg[r].path]] IN
                       /\ e.Data = reg[r].result
                       /\ e.UpdatedAt = now
                       /\ e.by = th[Bg(r)].body]_vars
    /\ [](\A r \in stoppedKey :
             (th[Bg(r)].pc = "uc_write" /\ ~panicked) => ENABLED UpdateWrite(Bg(r)))

\* C24's case: StopCacheUpdates(key) has returned and the scheduled refresh of
\* the key that had passed its check holds the lock, about to write an entry
\* that was never written.
C24_Witness ==
    \E r \in stoppedKey :
        /\ th[Bg(r)].pc = "uc_write"
        /\ closes[r] = 1
        /\ stopChans[reg[r].path] = 0
        /\ entries[cache[reg[r].path]].UpdatedAt = ZeroTime
        /\ ~panicked

\* Thread t is inside the request or the decoding of updateCache.
InFlight(t) == th[t].pc \in {"uc_get", "uc_decode"}

\* C25: the cache lock is held only for the write of updateCache, which its
\* holder can finish at once; a thread inside a request or a decoding holds no
\* lock, so that, however long it stays there, GetCached can begin and any
\* other refresh can take the lock whenever no write is under way.
C25_LockNotHeldAcrossFetch ==
    /\ \A t \in Threads : InFlight(t) => cacheMux # t
    /\ cacheMux # 0 => th[cacheMux].pc = "uc_write"
    /\ (cacheMux # 0 /\ ~panicked) => ENABLED UpdateWrite(cacheMux)
    /\ (cacheMux = 0 /\ ~panicked) =>
          /\ \A u \in Threads : th[u].pc = "uc_lock" => ENABLED UpdateLock(u)
          /\ \A p \in Procs : CanStart(p) => ENABLED GetCachedStart(p)

\* C25's case: while the scheduled refresh of one key is still decoding the
\* first response, the scheduled refresh of another key has issued the second
\* request and written its entry.
C25_Witness ==
    \E r, s \in Regs :
        /\ reg[r].path # reg[s].path
        /\ reg[r].kind # "none" /\ reg[s].kind # "none"
        /\ th[Bg(r)].pc = "uc_decode" /\ th[Bg(r)].body = 1
        /\ entries[s].by = 2
        /\ cache[reg[s].path] = s

\* The scheduled task of registration r is inside a refresh: its updateFunc
\* has called updateCache, which has not returned.
TaskRefreshing(r) ==
    /\ th[Bg(r)].op = "bg"
    /\ th[Bg(r)].pc \in {"uc_get", "uc_decode", "uc_lock", "uc_write"}

\* C26: at most one scheduled refresh of a key is under way at any time.
C26_OneScheduledRefresh ==
    \A r, s \in Regs :
        (r # s /\ reg[r].path = reg[s].path) => ~(TaskRefreshing(r) /\ TaskRefreshing(s))

\* A step of a call StopCacheUpdates(k) made by a caller (not by Stop).
StopStep(k) ==
    \/ StopBegins(k)
    \/ \E p \in Procs : /\ th[p].op = "StopCacheUpdates"
                        /\ th[p].path = k
                        /\ th'[p] # th[p]

\* C27: a step of StopCacheUpdates(k1) leaves the channel of every other key
\* in c.stopChans and open, their tickers running, the tasks of their
\* registrations where they were, c.cron and its jobs as they were, and every
\* cache entry and value unchanged.
C27_StopOnlyItsKey ==
    [][\A k1 \in Keys :
          StopStep(k1)
              => /\ \A k2 \in Keys \ {k1} : stopChans'[k2] = stopChans[k2]
                 /\ \A r \in Regs :
                       reg[r].path # k1
                           => /\ closes'[r] = closes[r]
                              /\ tickerStopped'[r] = tickerStopped[r]
                              /\ th'[Bg(r)] = th[Bg(r)]
                 /\ UNCHANGED << ticker, cronJobs, cronRunning, cache, entries, content >>]_vars

\* C27's case: StopCacheUpdates(k1) has returned after closing k1's channel,
\* and another key's cron job is still scheduled: its channel is in the map
\* and open, and c.cron is running.
C27_Witness ==
    /\ ret.op = "StopCacheUpdates"
    /\ \E r \in ret.after : closes[r] = 1
    /\ \E s \in Regs :
          /\ reg[s].kind = "cron" /\ reg[s].path # ret.path
          /\ stopChans[reg[s].path] = s /\ closes[s] = 0
          /\ s \in cronJobs /\ cronRunning

\* The CronSpec asks for "@every P" with a P that parses and is shorter than a
\* minute.
SubMinuteEvery(spec) == spec.every /\ spec.dur # -1 /\ spec.dur < Minute

\* C28: the scheduling branch of SetupCachedEndpoint ends in a return, and for
\* an "@every P" with a parsable P below one minute the registration is driven
\* by a ticker and its goroutine and no cron job; for every other expression
\* that resolves, by a cron job and no ticker; never by both.
C28_ScheduleResolution ==
    [][\A p \in Procs :
          (th[p].pc = "su_sched" /\ th'[p].pc # "su_sched")
              => LET r == th[p].rid
                     k == th[p].path
                     spec == ret'.spec
                 IN
                 /\ ret'.op = "Setup" /\ spec \in CronSpecs
                 /\ SubMinuteEvery(spec)
                       => /\ ret'.err = ""
                          /\ reg'[r].kind = "ticker"
                          /\ ticker'[k] = r /\ th'[Bg(r)].pc = "bg_wait"
                          /\ r \notin cronJobs'
                 /\ (~SubMinuteEvery(spec) /\ ~Unresolvable(spec))
                       => /\ ret'.err = ""
                          /\ reg'[r].kind = "cron"
                          /\ r \in cronJobs' /\ cronRunning' /\ th'[Bg(r)].pc = "bg_idle"
                          /\ ticker'[k] # r
                 /\ ~(ticker'[k] = r /\ r \in cronJobs')]_vars

\* C29: once a SetupCachedEndpoint of a key registered before has returned nil
\* and its entry is the key's, the entry's value is the destination of that
\* call: what reads of the key return.
C29_NewDestinationStays ==
    \A s \in Regs :
        (reg[s].kind # "none" /\ reg[s].over # {} /\ cache[reg[s].path] = s)
            => entries[s].Data = reg[s].result

\* The request of thread t cannot be issued: the behaviour has issued all the
\* requests it may.
OutOfRequests(t) == th[t].pc = "uc_get" /\ TotalFetches >= lim.fetch

\* C30: once the stop channel of a registration driven by a ticker is closed,
\* its goroutine, after at most the refresh it is in, leaves its loop with the
\* ticker stopped (unless the process has panicked, or the refresh it is in
\* waits for a request beyond those a behaviour may issue); and from the
\* closing on its updateFunc starts no refresh.
C30_ClosedSignalEndsTask ==
    /\ \A r \in Regs :
          (reg[r].kind = "ticker" /\ closes[r] >= 1)
              ~> \/ th[Bg(r)].pc = "bg_exit" /\ tickerStopped[r]
                 \/ panicked
                 \/ OutOfRequests(Bg(r))
    /\ [][\A r \in Regs : closes[r] >= 1 => ~StartsRefresh(r)]_vars
    /\ [][\A r \in Regs : th[Bg(r)].pc = "bg_exit" => th'[Bg(r)] = th[Bg(r)]]_vars

\* C30's case: the ticker goroutine of a registration whose channel
\* StopCacheUpdates closed has left its loop, after a refresh that wrote the
\* entry, and its ticker is stopped.
C30_Witness ==
    \E r \in stoppedKey :
        /\ reg[r].kind = "ticker"
        /\ closes[r] = 1
        /\ th[Bg(r)].pc = "bg_exit"
        /\ tickerStopped[r]
        /\ entries[r].by >= 1 /\ reg[r].skip
        /\ ~panicked


\* Thread t stores the payload of its request into the key's entry in this
\* step: the locked section of updateCache (lines 159-164).
RefreshLands(t) ==
    /\ th[t].pc = "uc_write"
    /\ th'[t].pc # "uc_write"
    /\ cache[th[t].path] # 0

\* C31: refreshes of one key never make the cache regress: requests are
\* numbered in the order they are answered, and when a refresh stamps the
\* key's entry, the payload the entry then holds (a whole payload, not the
\* remains of a failed decode) is not that of a request earlier than the one
\* whose refresh stamped the entry before: the entry never pairs an older
\* payload with a later updatedAt.
C31_NoRegression ==
    [][ \A t \in Threads :
          RefreshLands(t) =>
              LET e == cache[th[t].path]
                  held == content[entries'[e].Data]
              IN  held > 0 => held >= entries[e].by ]_vars


\* The SetupCachedEndpoint of registration r has returned the schedule error
\* after its initial fetch stored a payload: the call is over, no task was
\* started, the entry has been written.
ScheduleFailed(r) ==
    /\ r \in 1..nreg
    /\ ~panicked
    /\ ~reg[r].skip
    /\ reg[r].kind = "none"
    /\ entries[r].by # 0
    /\ \A q \in Procs : ~(th[q].op = "Setup" /\ th[q].rid = r)

\* Caller p's SetupCachedEndpoint returns the schedule error in this step.
ScheduleRejected(p) ==
    /\ th[p].pc = "su_sched"
    /\ th'[p].pc = "idle"
    /\ ret'.op = "Setup"
    /\ ret'.err = "schedule"

\* C32: SetupCachedEndpoint validates the schedule only after the initial
\* fetch. A call with SkipInitialFetch=false that returns the schedule error
\* while its entry is the key's has made exactly one request, leaves the entry
\* written (holding that payload in the call's destination when it is the
\* key's only request) and no task, ticker or cron job; a GetCached of the key
\* that judges the entry's age afterwards, within the freshness window, finds
\* it fresh and returns the value with no error.
C32_FetchBeforeValidation ==
    [][ \A p \in Procs :
          /\ (ScheduleRejected(p) /\ ~reg[th[p].rid].skip /\ cache[th[p].path] = th[p].rid)
                 => LET r == th[p].rid
                        k == th[p].path
                    IN
                    /\ ret'.fetched = 1
                    /\ entries'[r].UpdatedAt # ZeroTime
                    /\ entries'[r].by # 0
                    /\ reg'[r].kind = "none"
                    /\ th'[Bg(r)].op # "bg"
                    /\ r \notin cronJobs'
                    /\ ticker'[k] # r
                    /\ fetches'[k] = 1
                           => /\ entries'[r].by = th[p].body
                              /\ entries'[r].Data = reg[r].result
                              /\ content'[entries'[r].Data] = th[p].body
          /\ ( /\ th[p].op = "GetCached"
               /\ ScheduleFailed(th[p].ent)
               /\ cache[th[p].path] = th[p].ent
               /\ fetches[th[p].path] = 1 )
                 => /\ (th[p].pc = "gc_check" /\ th'[p].pc = "gc_ret"
                            /\ InWindow(entries[th[p].ent]))
                        => ~th'[p].expired
                    /\ (th[p].pc = "gc_ret" /\ th'[p].pc = "idle" /\ ~th[p].expired)
                        => /\ ret'.op = "GetCached"
                           /\ ret'.err = ""
                           /\ ret'.val = reg[th[p].ent].result
                           /\ ret'.snap = entries[th[p].ent].by ]_vars

\* C32's case: after a SetupCachedEndpoint that made the key's only request and
\* returned the schedule error, a GetCached has returned the payload with no
\* error, and no task of the registration exists.
C32_Witness ==
    /\ ret.op = "GetCached"
    /\ ret.err = ""
    /\ ret.snap = 1
    /\ ret.after = {}
    /\ ScheduleFailed(cache[ret.path])
    /\ fetches[ret.path] = 1
    /\ nops = 2
    /\ cronJobs = {}
    /\ ~cronRunning


\* The updateFunc of registration r, invoked by its schedule, returns in this
\* step.
InvocationEnds(r) ==
    /\ th[Bg(r)].pc = "bg_check"
    /\ th'[Bg(r)].pc # "bg_check"

====
